---------------------------- MODULE Spec2Model ----------------------------
(***************************************************************************)
(* A model of VM_to_ASM.go, the translator from the stack VM language to   *)
(* Hack assembly, together with the Hack machine its output runs on.       *)
(*                                                                         *)
(* An emitted assembly line is a pair: <<"@", sym>> for the A-instruction  *)
(* "@sym", <<"C", text>> for the C-instruction "text", <<"(", sym>> for    *)
(* the label declaration "(sym)".  A block of assembly text is a sequence  *)
(* of lines.  A VM source line is the sequence of its whitespace-separated *)
(* fields after the comment has been stripped (strings.Fields).            *)
(***************************************************************************)
EXTENDS Integers, Sequences, FiniteSets, TLC

VARIABLES
    \* ---- the translator's package-level variables
    fileName,              \* var fileName string (never assigned by the code)
    compLabelCounter,      \* var compLabelCounter int
    callCounter,           \* var callCounter int
    currentFunctionName,   \* var currentFunctionName string (never assigned)
    \* ---- main and translateVMFileToASM
    files,                 \* os.ReadDir(dir): the entry names, sorted
    mainPc,                \* where main is: "sys", "loop", "unit", "done"
    idx,                   \* position of main's range loop in files
    unit,                  \* [path, caller] of the file being translated
    nread,                 \* lines read so far in the whole run
    buf,                   \* the bufio.Writer's buffered lines
    asmFile,               \* the lines written to the .asm file
    fileAtOpen,            \* history: asmFile when the current unit was opened
    trace,                 \* history: every line handed to vmCommandToAsm
    \* ---- translation of a chosen source for the target machine
    todo,                  \* source lines still to translate
    prog,                  \* the assembly text emitted for them
    starts,                \* the ROM address at which each line's block starts
    lastRes,               \* the last (parts, asm, err) of vmCommandToAsm
    \* ---- the Hack machine
    mode,                  \* "idle", "translate", "failed", "run", "fault"
    regA, regD, ram, pc,
    scen,                  \* history: the scenario under execution
    ram0,                  \* history: the memory when execution started
    retTop                 \* history: top of stack when `return` starts

tvars == <<fileName, compLabelCounter, callCounter, currentFunctionName>>
mvars == <<files, mainPc, idx, unit, nread, buf, asmFile, fileAtOpen, trace>>
lvars == <<todo, prog, starts, lastRes>>
hvars == <<mode, regA, regD, ram, pc, scen, ram0, retTop>>
vars  == <<tvars, mvars, lvars, hvars>>

---------------------------------------------------------------------------
(* Bounds of the model.                                                    *)

MaxTotal   == 4    \* source lines read in one run of main
BufSize    == 20   \* capacity of the bufio.Writer, in lines (bufio: 4096 bytes)
MaxNumeral == 16   \* largest decimal numeral the model parses
MaxArgs    == 3    \* arguments of a call under execution
MaxLocals  == 2    \* locals of a function under execution
MaxOperands == 3   \* operands of a source line handed to the parser alone

StackBase  == 256  \* the bootstrap's "@256"
Word       == 2^16

---------------------------------------------------------------------------
(* Lines of assembly text.                                                 *)

At(s) == <<"@", s>>
Ci(s) == <<"C", s>>
Lb(s) == <<"(", s>>

RECURSIVE Repeat(_, _)
Repeat(block, n) == IF n <= 0 THEN <<>> ELSE block \o Repeat(block, n - 1)

\* strconv.Atoi on the numerals of the model: an optional sign and digits.
AtoiRange == (-1) .. MaxNumeral
AtoiOk(s) == \E n \in AtoiRange : ToString(n) = s
Atoi(s) == CHOOSE n \in AtoiRange : ToString(n) = s

\* strings.ToUpper on the three comparison mnemonics.
ToUpper(s) == CASE s = "eq" -> "EQ" [] s = "lt" -> "LT" [] s = "gt" -> "GT"

\* A (string, error) result; err = "" is nil.
Ok(asm) == [asm |-> asm, err |-> ""]
Err(msg) == [asm |-> <<>>, err |-> msg]

---------------------------------------------------------------------------
(* The code generators.                                                    *)

\* translateReturnCommand with the stack pointer put at ARG, not above it.
translateReturnCommand_SPAtArg ==
    << At("LCL"), Ci("D=M"), At("5"), Ci("A=D-A"), Ci("D=M"), At("R13"), Ci("M=D"),
       At("SP"), Ci("A=M-1"), Ci("D=M"), At("ARG"), Ci("A=M"), Ci("M=D"),
       Ci("D=A"), At("SP"), Ci("M=D"),
       At("LCL"), Ci("AM=M-1"), Ci("D=M"), At("THAT"), Ci("M=D"),
       At("LCL"), Ci("AM=M-1"), Ci("D=M"), At("THIS"), Ci("M=D"),
       At("LCL"), Ci("AM=M-1"), Ci("D=M"), At("ARG"), Ci("M=D"),
       At("LCL"), Ci("A=M-1"), Ci("D=M"), At("LCL"), Ci("M=D"),
       At("R13"), Ci("A=M"), Ci("0;JMP") >>

\* translateReturnCommand popping THIS before THAT.
translateReturnCommand_Swapped ==
    << At("LCL"), Ci("D=M"), At("5"), Ci("A=D-A"), Ci("D=M"), At("R13"), Ci("M=D"),
       At("SP"), Ci("A=M-1"), Ci("D=M"), At("ARG"), Ci("A=M"), Ci("M=D"),
       Ci("D=A+1"), At("SP"), Ci("M=D"),
       At("LCL"), Ci("AM=M-1"), Ci("D=M"), At("THIS"), Ci("M=D"),
       At("LCL"), Ci("AM=M-1"), Ci("D=M"), At("THAT"), Ci("M=D"),
       At("LCL"), Ci("AM=M-1"), Ci("D=M"), At("ARG"), Ci("M=D"),
       At("LCL"), Ci("A=M-1"), Ci("D=M"), At("LCL"), Ci("M=D"),
       At("R13"), Ci("A=M"), Ci("0;JMP") >>

translateReturnCommand ==
    << At("LCL"), Ci("D=M"), At("5"), Ci("A=D-A"), Ci("D=M"), At("R13"), Ci("M=D"),
       At("SP"), Ci("A=M-1"), Ci("D=M"), At("ARG"), Ci("A=M"), Ci("M=D"),
       Ci("D=A+1"), At("SP"), Ci("M=D"),
       At("LCL"), Ci("AM=M-1"), Ci("D=M"), At("THAT"), Ci("M=D"),
       At("LCL"), Ci("AM=M-1"), Ci("D=M"), At("THIS"), Ci("M=D"),
       At("LCL"), Ci("AM=M-1"), Ci("D=M"), At("ARG"), Ci("M=D"),
       At("LCL"), Ci("A=M-1"), Ci("D=M"), At("LCL"), Ci("M=D"),
       At("R13"), Ci("A=M"), Ci("0;JMP") >>

translateGotoCommand(label) == << At(label), Ci("0;JMP") >>

translateIfGotoCommand(label) ==
    << At("SP"), Ci("AM=M-1"), Ci("D=M"), At(label), Ci("D;JNE") >>

translateLabelCommand(label) == << Lb(currentFunctionName \o "$" \o label) >>

\* One iteration of translateCallCommand's loop over LCL, ARG, THIS, THAT.
PushRegister(segment) ==
    << At(segment), Ci("D=M"), At("SP"), Ci("A=M"), Ci("M=D"), At("SP"), Ci("M=M+1") >>

\* CallBlock without the five words of the frame taken off ARG.
CallBlock_NoFrame(functionName, numArgs, returnLabel) ==
    << At(returnLabel), Ci("D=A"), At("SP"), Ci("A=M"), Ci("M=D"), At("SP"), Ci("M=M+1") >>
    \o PushRegister("LCL") \o PushRegister("ARG")
    \o PushRegister("THIS") \o PushRegister("THAT")
    \o << At("SP"), Ci("D=M"), At(ToString(numArgs)), Ci("D=D-A"),
          At("ARG"), Ci("M=D") >>
    \o << At("SP"), Ci("D=M"), At("LCL"), Ci("M=D") >>
    \o << At(functionName), Ci("0;JMP") >>
    \o << Lb(returnLabel) >>

\* The block of translateCallCommand, given the return label it synthesized.
CallBlock(functionName, numArgs, returnLabel) ==
    << At(returnLabel), Ci("D=A"), At("SP"), Ci("A=M"), Ci("M=D"), At("SP"), Ci("M=M+1") >>
    \o PushRegister("LCL") \o PushRegister("ARG")
    \o PushRegister("THIS") \o PushRegister("THAT")
    \o << At("SP"), Ci("D=M"), At(ToString(numArgs)), Ci("D=D-A"),
          At("5"), Ci("D=D-A"), At("ARG"), Ci("M=D") >>
    \o << At("SP"), Ci("D=M"), At("LCL"), Ci("M=D") >>
    \o << At(functionName), Ci("0;JMP") >>
    \o << Lb(returnLabel) >>

\* translateCallCommand returns the block; the caller of this operator adds
\* one to callCounter (the function's callCounter++).
translateCallCommand(functionName, numArgs) ==
    Ok(CallBlock(functionName, numArgs,
                 functionName \o "$ret." \o ToString(callCounter)))

translateFunctionCommand(functionName, numLocals) ==
    Ok(<< Lb(functionName) >>
       \o Repeat(<< At("SP"), Ci("A=M"), Ci("M=0"), At("SP"), Ci("M=M+1") >>,
                 numLocals))

PushD == << At("SP"), Ci("A=M"), Ci("M=D"), At("SP"), Ci("M=M+1") >>

\* pushSegmentTemplate without the increment of the stack pointer.
pushSegmentTemplate_NoInc(segment, index) ==
    << At(segment), Ci("D=M"), At(index), Ci("A=D+A"), Ci("D=M"),
       At("SP"), Ci("A=M"), Ci("M=D") >>

pushSegmentTemplate(segment, index) ==
    << At(segment), Ci("D=M"), At(index), Ci("A=D+A"), Ci("D=M") >> \o PushD

translatePushCommand(segment, index, fname) ==
    CASE segment = "constant" -> Ok(<< At(index), Ci("D=A") >> \o PushD)
      [] segment = "local"    -> Ok(pushSegmentTemplate("LCL", index))
      [] segment = "argument" -> Ok(pushSegmentTemplate("ARG", index))
      [] segment = "this"     -> Ok(pushSegmentTemplate("THIS", index))
      [] segment = "that"     -> Ok(pushSegmentTemplate("THAT", index))
      [] segment = "static"   ->
            Ok(<< At(fname \o "." \o index), Ci("D=M") >> \o PushD)
      [] segment = "temp"     ->
            IF ~AtoiOk(index)
            THEN Err("invalid index for push temp command")
            ELSE Ok(<< At("R" \o ToString(5 + Atoi(index))), Ci("D=M") >> \o PushD)
      [] segment = "pointer"  ->
            IF index = "0" THEN Ok(<< At("THIS"), Ci("D=M") >> \o PushD)
            ELSE IF index = "1" THEN Ok(<< At("THAT"), Ci("D=M") >> \o PushD)
            ELSE Err("invalid index for push pointer command")
      [] OTHER -> Err("unsupported push command")

translateArithmeticCommand(cmd) ==
    CASE cmd = "add" -> << At("SP"), Ci("AM=M-1"), Ci("D=M"), Ci("A=A-1"), Ci("M=D+M") >>
      [] cmd = "sub" -> << At("SP"), Ci("AM=M-1"), Ci("D=M"), Ci("A=A-1"), Ci("M=M-D") >>
      [] cmd = "neg" -> << At("SP"), Ci("A=M-1"), Ci("M=-M") >>
      [] cmd = "and" -> << At("SP"), Ci("AM=M-1"), Ci("D=M"), Ci("A=A-1"), Ci("M=D&M") >>
      [] cmd = "or"  -> << At("SP"), Ci("AM=M-1"), Ci("D=M"), Ci("A=A-1"), Ci("M=D|M") >>
      [] cmd = "not" -> << At("SP"), Ci("A=M-1"), Ci("M=!M") >>

translateComparisonCommand(cmd, labelCounter) ==
    LET jumpInstruction == CASE cmd = "eq" -> "JEQ" [] cmd = "lt" -> "JLT"
                             [] cmd = "gt" -> "JGT"
        trueLabel == ToUpper(cmd) \o "_TRUE_" \o ToString(labelCounter)
        endLabel  == ToUpper(cmd) \o "_END_" \o ToString(labelCounter)
    IN  << At("SP"), Ci("AM=M-1"), Ci("D=M"), Ci("A=A-1"), Ci("D=M-D"),
           At(trueLabel), Ci("D;" \o jumpInstruction),
           At("SP"), Ci("A=M-1"), Ci("M=0"), At(endLabel), Ci("0;JMP"),
           Lb(trueLabel), At("SP"), Ci("A=M-1"), Ci("M=-1"), Lb(endLabel) >>

PopToR13 == << At("R13"), Ci("M=D"), At("SP"), Ci("AM=M-1"), Ci("D=M"),
               At("R13"), Ci("A=M"), Ci("M=D") >>

\* The final Sprintf of translatePopCommand, for local, argument, this, that.
PopSegment(baseAddr, index) ==
    Ok(<< At(baseAddr), Ci("D=M"), At(index), Ci("D=D+A") >> \o PopToR13)

PopDirect(sym) == Ok(<< At("SP"), Ci("AM=M-1"), Ci("D=M"), At(sym), Ci("M=D") >>)

translatePopCommand(segment, index, fname) ==
    CASE segment = "local"    -> PopSegment("LCL", index)
      [] segment = "argument" -> PopSegment("ARG", index)
      [] segment = "this"     -> PopSegment("THIS", index)
      [] segment = "that"     -> PopSegment("THAT", index)
      [] segment = "temp"     ->
            IF ~AtoiOk(index)
            THEN Err("invalid index for pop temp command")
            ELSE Ok(<< At("5"), Ci("D=A"), At(ToString(Atoi(index))), Ci("D=D+A") >>
                    \o PopToR13)
      [] segment = "pointer"  ->
            IF index = "0" THEN PopDirect("THIS")
            ELSE IF index = "1" THEN PopDirect("THAT")
            ELSE Err("invalid index for pop pointer command")
      [] segment = "static"   ->
            IF ~AtoiOk(index)
            THEN Err("invalid index for pop static command")
            ELSE PopDirect(fname \o "." \o ToString(Atoi(index)))
      [] OTHER -> Err("unsupported segment for pop command")

\* The counter left as it is after a comparison command.
IncCompLabelCounter_Forgotten(c) == c

\* compLabelCounter++ after a comparison command.
IncCompLabelCounter(c) == c + 1

\* callCounter++ inside translateCallCommand.
IncCallCounter(c) == c + 1

\* vmCommandToAsm(cmd): parts is strings.Fields of the comment-stripped line.
\* The result carries the two counters as the call leaves them.
vmCommandToAsm(parts) ==
    LET same(r) == [asm |-> r.asm, err |-> r.err,
                    comp |-> compLabelCounter, calls |-> callCounter]
    IN
    IF Len(parts) = 0 THEN same(Err("empty command line"))
    ELSE CASE parts[1] \in {"add", "sub", "neg", "and", "or", "not"} ->
                same(Ok(translateArithmeticCommand(parts[1])))
           [] parts[1] \in {"eq", "lt", "gt"} ->
                [asm |-> translateComparisonCommand(parts[1], compLabelCounter),
                 err |-> "",
                 comp |-> IncCompLabelCounter(compLabelCounter),
                 calls |-> callCounter]
           [] parts[1] \in {"push", "pop"} ->
                IF Len(parts) # 3
                THEN same(Err("invalid " \o parts[1] \o " command"))
                ELSE IF parts[1] = "push"
                     THEN same(translatePushCommand(parts[2], parts[3], fileName))
                     ELSE same(translatePopCommand(parts[2], parts[3], fileName))
           [] parts[1] \in {"function", "call"} ->
                IF Len(parts) # 3
                THEN same(Err("invalid " \o parts[1] \o " command"))
                ELSE IF ~AtoiOk(parts[3])
                THEN same(Err("invalid number for " \o parts[1] \o " command"))
                ELSE IF parts[1] = "function"
                     THEN same(translateFunctionCommand(parts[2], Atoi(parts[3])))
                     ELSE [asm |-> translateCallCommand(parts[2], Atoi(parts[3])).asm,
                           err |-> "",
                           comp |-> compLabelCounter,
                           calls |-> IncCallCounter(callCounter)]
           [] parts[1] = "if-goto" ->
                IF Len(parts) # 2 THEN same(Err("invalid if-goto command"))
                ELSE same(Ok(translateIfGotoCommand(parts[2])))
           [] parts[1] = "goto" ->
                IF Len(parts) # 2 THEN same(Err("invalid goto command"))
                ELSE same(Ok(translateGotoCommand(parts[2])))
           [] parts[1] = "label" ->
                IF Len(parts) # 2 THEN same(Err("invalid label command"))
                ELSE same(Ok(translateLabelCommand(parts[2])))
           [] parts[1] = "return" ->
                IF Len(parts) # 1 THEN same(Err("invalid return command"))
                ELSE same(Ok(translateReturnCommand))
           [] OTHER -> same(Err("unsupported command"))

---------------------------------------------------------------------------
(* main and translateVMFileToASM.                                          *)

\* The directory listings of the model, as os.ReadDir sorts them.  The
\* output file <dir>.asm is created in the directory before it is read.
DirListings ==
    { << "Prog.asm" >>, << "Foo.vm", "Prog.asm" >>, << "Prog.asm", "Sys.vm" >>,
      << "Foo.vm", "Prog.asm", "Sys.vm" >> }

\* strings.HasSuffix(fileName, ".vm") on the entry names of the model.
HasSuffixVM(name) == name \in {"Foo.vm", "Sys.vm"}

checkForSysVM(entries) == \E i \in 1..Len(entries) : entries[i] = "Sys.vm"

\* The source lines main may read from a unit.
RunLines ==
    { << "function", "F", "0" >>, << "function", "G", "0" >>,
      << "label", "L" >>, << "goto", "L" >>, << "if-goto", "L" >>,
      << "push", "static", "0" >>, << "pop", "static", "0" >>,
      << "eq" >>, << "lt" >>, << "push", "constant" >> }

Bootstrap == << At("256"), Ci("D=A"), At("SP"), Ci("M=D") >>

NoUnit == [path |-> "", caller |-> ""]
NoRes  == [parts |-> <<>>, asm |-> <<>>, err |-> ""]

\* The variables the machine and the single-source translation use, at rest.
IdleMachine ==
    /\ mode = "idle" /\ regA = 0 /\ regD = 0 /\ ram = <<>> /\ pc = 0
    /\ scen = <<>> /\ ram0 = <<>> /\ retTop = 0
    /\ todo = <<>> /\ prog = <<>> /\ starts = <<>> /\ lastRes = NoRes

Init ==
    /\ fileName = "" /\ compLabelCounter = 0 /\ callCounter = 0
    /\ currentFunctionName = ""
    /\ files \in DirListings
    /\ mainPc = "sys" /\ idx = 1 /\ unit = NoUnit /\ nread = 0
    /\ buf = <<>> /\ asmFile = Bootstrap /\ fileAtOpen = <<>> /\ trace = <<>>
    /\ IdleMachine

\* bufio.Writer.WriteString: fill the buffer, flush it when it is full.
RECURSIVE WriteString(_, _, _)
WriteString(b, f, s) ==
    IF Len(s) > BufSize - Len(b)
    THEN LET n == BufSize - Len(b)
         IN  WriteString(<<>>, f \o b \o SubSeq(s, 1, n), SubSeq(s, n + 1, Len(s)))
    ELSE [buf |-> b \o s, file |-> f]

\* translateVMFileToASM is entered: a new scanner and a new bufio.Writer.
OpenUnit(path, caller) ==
    /\ unit' = [path |-> path, caller |-> caller]
    /\ mainPc' = "unit"
    /\ buf' = <<>>
    /\ fileAtOpen' = asmFile

\* translateVMFileToASM returns to main, which goes on with its loop.
ReturnToMain ==
    /\ mainPc' = "loop"
    /\ idx' = IF unit.caller = "sys" THEN 1 ELSE idx + 1
    /\ unit' = NoUnit

MainSysOpen ==
    /\ mainPc = "sys" /\ checkForSysVM(files)
    /\ OpenUnit("Sys.vm", "sys")
    /\ UNCHANGED <<tvars, files, idx, nread, asmFile, trace, lvars, hvars>>

MainSysAbsent ==
    /\ mainPc = "sys" /\ ~checkForSysVM(files)
    /\ mainPc' = "loop" /\ idx' = 1
    /\ UNCHANGED <<tvars, files, unit, nread, buf, asmFile, fileAtOpen, trace,
                   lvars, hvars>>

\* The body of main's range loop; the entry name is a local of the loop
\* (fileName := entry.Name()), so the package-level fileName stays as it is.
MainLoopOpen ==
    /\ mainPc = "loop" /\ idx <= Len(files)
    /\ LET entryName == files[idx]
       IN  /\ HasSuffixVM(entryName) /\ entryName # "Sys.vm"
           /\ OpenUnit(entryName, "loop")
    /\ UNCHANGED <<tvars, files, idx, nread, asmFile, trace, lvars, hvars>>

MainLoopSkip ==
    /\ mainPc = "loop" /\ idx <= Len(files)
    /\ LET entryName == files[idx]
       IN  ~(HasSuffixVM(entryName) /\ entryName # "Sys.vm")
    /\ idx' = idx + 1
    /\ UNCHANGED <<tvars, files, mainPc, unit, nread, buf, asmFile, fileAtOpen,
                   trace, lvars, hvars>>

MainDone ==
    /\ mainPc = "loop" /\ idx > Len(files)
    /\ mainPc' = "done"
    /\ UNCHANGED <<tvars, files, idx, unit, nread, buf, asmFile, fileAtOpen,
                   trace, lvars, hvars>>

\* The scanner yields an empty or comment-only line: continue.
ScanBlank ==
    /\ mainPc = "unit" /\ nread < MaxTotal
    /\ nread' = nread + 1
    /\ UNCHANGED <<tvars, files, mainPc, idx, unit, buf, asmFile, fileAtOpen,
                   trace, lvars, hvars>>

Logged(parts, r) ==
    Append(trace, [unit |-> unit.path, parts |-> parts, asm |-> r.asm, err |-> r.err])

\* The scanner yields a command that vmCommandToAsm translates.
ScanTranslate ==
    /\ mainPc = "unit" /\ nread < MaxTotal
    /\ \E parts \in RunLines :
          LET r == vmCommandToAsm(parts)
              w == WriteString(buf, asmFile, r.asm)
          IN  /\ r.err = ""
              /\ compLabelCounter' = r.comp /\ callCounter' = r.calls
              /\ buf' = w.buf /\ asmFile' = w.file
              /\ trace' = Logged(parts, r)
    /\ nread' = nread + 1
    /\ UNCHANGED <<fileName, currentFunctionName, files, mainPc, idx, unit,
                   fileAtOpen, lvars, hvars>>

\* The scanner yields a command that vmCommandToAsm rejects: return err.
\* The writer is dropped with what it still buffers.
ScanFail ==
    /\ mainPc = "unit" /\ nread < MaxTotal
    /\ \E parts \in RunLines :
          LET r == vmCommandToAsm(parts)
          IN  /\ r.err # ""
              /\ compLabelCounter' = r.comp /\ callCounter' = r.calls
              /\ trace' = Logged(parts, r)
    /\ nread' = nread + 1
    /\ buf' = <<>>
    /\ ReturnToMain
    /\ UNCHANGED <<fileName, currentFunctionName, files, asmFile, fileAtOpen,
                   lvars, hvars>>

\* The scanner is at the end of the file: return writer.Flush().
ScanEOF ==
    /\ mainPc = "unit"
    /\ asmFile' = asmFile \o buf
    /\ buf' = <<>>
    /\ ReturnToMain
    /\ UNCHANGED <<tvars, files, nread, fileAtOpen, trace, lvars, hvars>>

Next ==
    \/ MainSysOpen \/ MainSysAbsent \/ MainLoopOpen \/ MainLoopSkip \/ MainDone
    \/ ScanBlank \/ ScanTranslate \/ ScanFail \/ ScanEOF

Spec == Init /\ [][Next]_vars

---------------------------------------------------------------------------
(* The Hack assembler and machine, on which the emitted text runs.         *)

IsInstr(l) == l[1] # "("
Rom(text) == SelectSeq(text, IsInstr)

IsNumeral(s) == \E n \in 0..MaxNumeral : ToString(n) = s
Numeral(s) == CHOOSE n \in 0..MaxNumeral : ToString(n) = s

Predefined ==
    [SP |-> 0, LCL |-> 1, ARG |-> 2, THIS |-> 3, THAT |-> 4,
     R0 |-> 0, R1 |-> 1, R2 |-> 2, R3 |-> 3, R4 |-> 4, R5 |-> 5, R6 |-> 6,
     R7 |-> 7, R8 |-> 8, R9 |-> 9, R10 |-> 10, R11 |-> 11, R12 |-> 12,
     R13 |-> 13, R14 |-> 14, R15 |-> 15, SCREEN |-> 16384, KBD |-> 24576]

IsLabel(text, s) == \E i \in 1..Len(text) : text[i] = Lb(s)

\* A label stands for the address of the instruction that follows it.
LabelAddr(text, s) ==
    LET i == CHOOSE j \in 1..Len(text) :
                 text[j] = Lb(s) /\ \A h \in 1..(j - 1) : text[h] # Lb(s)
    IN  Cardinality({h \in 1..(i - 1) : IsInstr(text[h])})

IsVariable(text, s) ==
    ~IsNumeral(s) /\ s \notin DOMAIN Predefined /\ ~IsLabel(text, s)

FirstUse(text, s) ==
    CHOOSE j \in 1..Len(text) :
        text[j] = At(s) /\ \A h \in 1..(j - 1) : text[h] # At(s)

\* Variables get the addresses 16, 17, ... in the order of their first use.
VariableAddr(text, s) ==
    LET others == {text[j][2] : j \in {h \in 1..Len(text) :
                       text[h][1] = "@" /\ IsVariable(text, text[h][2])}}
    IN  16 + Cardinality({t \in others : FirstUse(text, t) < FirstUse(text, s)})

Resolve(text, s) ==
    IF IsNumeral(s) THEN Numeral(s)
    ELSE IF s \in DOMAIN Predefined THEN Predefined[s]
    ELSE IF IsLabel(text, s) THEN LabelAddr(text, s)
    ELSE VariableAddr(text, s)

Wrap(x) == x % Word
Negative(x) == x >= Word \div 2

RECURSIVE BitAnd(_, _, _)
BitAnd(x, y, n) ==
    IF n = 0 THEN 0
    ELSE (x % 2) * (y % 2) + 2 * BitAnd(x \div 2, y \div 2, n - 1)

BitNot(x) == Word - 1 - x
BitOr(x, y) == BitNot(BitAnd(BitNot(x), BitNot(y), 16))

\* The C-instructions the translator emits: destination, computation, jump.
Decode(c) ==
    CASE c = "D=M"    -> [dest |-> "D",  comp |-> "M",   jump |-> ""]
      [] c = "D=A"    -> [dest |-> "D",  comp |-> "A",   jump |-> ""]
      [] c = "A=M"    -> [dest |-> "A",  comp |-> "M",   jump |-> ""]
      [] c = "M=D"    -> [dest |-> "M",  comp |-> "D",   jump |-> ""]
      [] c = "M=M+1"  -> [dest |-> "M",  comp |-> "M+1", jump |-> ""]
      [] c = "AM=M-1" -> [dest |-> "AM", comp |-> "M-1", jump |-> ""]
      [] c = "A=M-1"  -> [dest |-> "A",  comp |-> "M-1", jump |-> ""]
      [] c = "A=A-1"  -> [dest |-> "A",  comp |-> "A-1", jump |-> ""]
      [] c = "A=D-A"  -> [dest |-> "A",  comp |-> "D-A", jump |-> ""]
      [] c = "A=D+A"  -> [dest |-> "A",  comp |-> "D+A", jump |-> ""]
      [] c = "D=D-A"  -> [dest |-> "D",  comp |-> "D-A", jump |-> ""]
      [] c = "D=D+A"  -> [dest |-> "D",  comp |-> "D+A", jump |-> ""]
      [] c = "D=A+1"  -> [dest |-> "D",  comp |-> "A+1", jump |-> ""]
      [] c = "D=M-D"  -> [dest |-> "D",  comp |-> "M-D", jump |-> ""]
      [] c = "M=D+M"  -> [dest |-> "M",  comp |-> "D+M", jump |-> ""]
      [] c = "M=M-D"  -> [dest |-> "M",  comp |-> "M-D", jump |-> ""]
      [] c = "M=-M"   -> [dest |-> "M",  comp |-> "-M",  jump |-> ""]
      [] c = "M=!M"   -> [dest |-> "M",  comp |-> "!M",  jump |-> ""]
      [] c = "M=D&M"  -> [dest |-> "M",  comp |-> "D&M", jump |-> ""]
      [] c = "M=D|M"  -> [dest |-> "M",  comp |-> "D|M", jump |-> ""]
      [] c = "M=0"    -> [dest |-> "M",  comp |-> "0",   jump |-> ""]
      [] c = "M=-1"   -> [dest |-> "M",  comp |-> "-1",  jump |-> ""]
      [] c = "0;JMP"  -> [dest |-> "",   comp |-> "0",   jump |-> "JMP"]
      [] c = "D;JNE"  -> [dest |-> "",   comp |-> "D",   jump |-> "JNE"]
      [] c = "D;JEQ"  -> [dest |-> "",   comp |-> "D",   jump |-> "JEQ"]
      [] c = "D;JLT"  -> [dest |-> "",   comp |-> "D",   jump |-> "JLT"]
      [] c = "D;JGT"  -> [dest |-> "",   comp |-> "D",   jump |-> "JGT"]

UsesM(d) == d.dest \in {"M", "AM"}
                \/ d.comp \in {"M", "M+1", "M-1", "M-D", "D+M", "-M", "!M", "D&M", "D|M"}

\* The ALU, on 16-bit words; m is RAM[A].
Alu(comp, a, d, m) ==
    CASE comp = "0"   -> 0
      [] comp = "-1"  -> Word - 1
      [] comp = "D"   -> d
      [] comp = "A"   -> a
      [] comp = "M"   -> m
      [] comp = "A+1" -> Wrap(a + 1)
      [] comp = "A-1" -> Wrap(a - 1)
      [] comp = "M+1" -> Wrap(m + 1)
      [] comp = "M-1" -> Wrap(m - 1)
      [] comp = "D+A" -> Wrap(d + a)
      [] comp = "D-A" -> Wrap(d - a)
      [] comp = "D+M" -> Wrap(d + m)
      [] comp = "M-D" -> Wrap(m - d)
      [] comp = "-M"  -> Wrap(0 - m)
      [] comp = "!M"  -> BitNot(m)
      [] comp = "D&M" -> BitAnd(d, m, 16)
      [] comp = "D|M" -> BitOr(d, m)

Taken(jump, v) ==
    CASE jump = ""    -> FALSE
      [] jump = "JMP" -> TRUE
      [] jump = "JEQ" -> v = 0
      [] jump = "JNE" -> v # 0
      [] jump = "JLT" -> Negative(v)
      [] jump = "JGT" -> v # 0 /\ ~Negative(v)

---------------------------------------------------------------------------
(* Translating a chosen source and running its assembly text.              *)

IdleMain ==
    /\ files = <<>> /\ mainPc = "idle" /\ idx = 1 /\ unit = NoUnit /\ nread = 0
    /\ buf = <<>> /\ asmFile = <<>> /\ fileAtOpen = <<>> /\ trace = <<>>

FreshTranslator ==
    /\ fileName = "" /\ compLabelCounter = 0 /\ callCounter = 0
    /\ currentFunctionName = ""

\* One pass of translateVMFileToASM's loop, the text going to prog.
LoadLine ==
    /\ mode = "translate" /\ todo # <<>>
    /\ LET parts == Head(todo)
           r == vmCommandToAsm(parts)
           at == Len(Rom(prog))
       IN  /\ compLabelCounter' = r.comp /\ callCounter' = r.calls
           /\ lastRes' = [parts |-> parts, asm |-> r.asm, err |-> r.err]
           /\ IF r.err # ""
              THEN /\ mode' = "failed" /\ todo' = <<>>
                   /\ UNCHANGED <<prog, starts, pc>>
              ELSE /\ prog' = prog \o r.asm
                   /\ starts' = Append(starts, at)
                   /\ todo' = Tail(todo)
                   /\ mode' = IF Tail(todo) = <<>> THEN "run" ELSE "translate"
                   /\ pc' = IF Len(starts) + 1 = scen.entry THEN at ELSE pc
    /\ UNCHANGED <<fileName, currentFunctionName, mvars, regA, regD, ram, scen,
                   ram0, retTop>>

Running == mode = "run" /\ pc < Len(Rom(prog))
Halted  == mode = "run" /\ pc >= Len(Rom(prog))

\* The top of the stack in memory m.
Top(m) == m[m[0] - 1]

\* An A-instruction.
StepA ==
    /\ Running
    /\ LET ins == Rom(prog)[pc + 1]
       IN  /\ ins[1] = "@"
           /\ regA' = Resolve(prog, ins[2])
           /\ pc' = pc + 1
           /\ retTop' = IF scen.retIdx > 0 /\ pc + 1 = starts[scen.retIdx]
                        THEN Top(ram) ELSE retTop
    /\ UNCHANGED <<tvars, mvars, lvars, mode, regD, ram, scen, ram0>>

\* A C-instruction.  An access to memory the model does not hold stops it.
StepC ==
    /\ Running
    /\ LET ins == Rom(prog)[pc + 1]
           d == Decode(ins[2])
       IN  /\ ins[1] = "C"
           /\ IF UsesM(d) /\ regA \notin DOMAIN ram
              THEN /\ mode' = "fault"
                   /\ UNCHANGED <<regA, regD, ram, pc, retTop>>
              ELSE LET m == IF UsesM(d) THEN ram[regA] ELSE 0
                       v == Alu(d.comp, regA, regD, m)
                       newRam == IF d.dest \in {"M", "AM"}
                                 THEN [ram EXCEPT ![regA] = v] ELSE ram
                       newPc == IF Taken(d.jump, v) THEN regA ELSE pc + 1
                   IN  /\ mode' = mode
                       /\ regA' = IF d.dest \in {"A", "AM"} THEN v ELSE regA
                       /\ regD' = IF d.dest = "D" THEN v ELSE regD
                       /\ ram' = newRam
                       /\ pc' = newPc
                       /\ retTop' = IF scen.retIdx > 0 /\ newPc = starts[scen.retIdx]
                                    THEN Top(newRam) ELSE retTop
    /\ UNCHANGED <<tvars, mvars, lvars, scen, ram0>>

\* ---- the parser alone, on one source line

Opcodes ==
    {"add", "sub", "neg", "and", "or", "not", "eq", "lt", "gt", "push", "pop",
     "function", "call", "goto", "if-goto", "label", "return", "foo"}

OperandTokens == {"local", "0", "F"}

ParseLines ==
    { << op >> \o args : op \in Opcodes,
                        args \in UNION {[1..n -> OperandTokens] : n \in 0..MaxOperands} }

NoScen(lines) ==
    [kind |-> "parse", lines |-> lines, entry |-> 0, retIdx |-> 0,
     S |-> 0, n |-> 0, k |-> 0, ptr |-> ""]

ParseInit ==
    /\ FreshTranslator /\ IdleMain
    /\ \E line \in ParseLines : todo = << line >> /\ scen = NoScen(<< line >>)
    /\ prog = <<>> /\ starts = <<>> /\ lastRes = NoRes
    /\ mode = "translate" /\ regA = 0 /\ regD = 0 /\ ram = <<>> /\ pc = 0
    /\ ram0 = <<>> /\ retTop = 0

ParseNext == LoadLine

ParseSpec == ParseInit /\ [][ParseNext]_vars

\* ---- the machine, on the text of one command or of a call and its callee

RamTop == StackBase + MaxArgs + MaxLocals + 10

Values == {0, 1, Word - 1}

PointerConfigs == {"sane", "zero", "stack"}

\* The values of LCL, ARG, THIS, THAT (RAM[1..4]).  LCL and ARG address
\* memory apart from the working stack.  THIS and THAT are whatever the
\* program popped into them with `pop pointer`: memory apart from the stack,
\* the register file (address 0), or the stack itself.
Pointers(cfg) ==
    [a \in 1..4 |->
        IF a \in {1, 2} \/ cfg = "sane" THEN RamTop - 9 + 2 * a
        ELSE IF cfg = "zero" THEN 0 ELSE StackBase]

Fill(a) == 100 + a

Memory(S, cfg, x, y) ==
    [a \in 0..RamTop |->
        IF a = 0 THEN S
        ELSE IF a \in 1..4 THEN Pointers(cfg)[a]
        ELSE IF a = S - 1 THEN y
        ELSE IF a = S - 2 THEN x
        ELSE Fill(a)]

Indexes == {"0", "1"}

ExecLines ==
    { << op >> : op \in {"add", "sub", "neg", "and", "or", "not", "eq", "lt", "gt"} }
    \cup { << "push", seg, i >> :
             seg \in {"constant", "local", "argument", "this", "that", "static",
                      "temp", "pointer"}, i \in Indexes }
    \cup { << "pop", seg, i >> :
             seg \in {"local", "argument", "this", "that", "static", "temp",
                      "pointer"}, i \in Indexes }
    \cup { << "function", "F", ToString(k) >> : k \in (-1)..MaxLocals }

Bodies ==
    { << << "push", "constant", "7" >> >>,
      << << "push", "constant", "1" >>, << "push", "constant", "2" >>, << "add" >> >>,
      << << "push", "constant", "1" >>, << "push", "constant", "2" >>, << "lt" >> >> }

CmdScenarios ==
    { [kind |-> "cmd", lines |-> << line >>, entry |-> 1, retIdx |-> 0,
       S |-> S, n |-> 0, k |-> 0, ptr |-> cfg] :
         line \in ExecLines, S \in {StackBase + 2, StackBase + 3},
         cfg \in PointerConfigs }

\* The callee first, the call site last: execution starts at the call.
CallLines(n, k, body) ==
    << << "function", "F", ToString(k) >> >> \o body
    \o << << "return" >>, << "call", "F", ToString(n) >> >>

CallScenarios ==
    { [kind |-> "call", lines |-> CallLines(n, k, body),
       entry |-> Len(body) + 3, retIdx |-> Len(body) + 2,
       S |-> S, n |-> n, k |-> k, ptr |-> cfg] :
         n \in 0..MaxArgs, k \in 0..MaxLocals, body \in Bodies,
         S \in {StackBase + MaxArgs, StackBase + MaxArgs + 1},
         cfg \in PointerConfigs }

ExecInit ==
    /\ FreshTranslator /\ IdleMain
    /\ \/ \E sc \in CmdScenarios, x \in Values, y \in Values :
             scen = sc /\ ram = Memory(sc.S, sc.ptr, x, y)
       \/ \E sc \in CallScenarios :
             scen = sc /\ ram = Memory(sc.S, sc.ptr, 1, Word - 1)
    /\ todo = scen.lines /\ prog = <<>> /\ starts = <<>> /\ lastRes = NoRes
    /\ mode = "translate" /\ regA = 0 /\ regD \in {0, Word - 1} /\ pc = 0
    /\ ram0 = ram /\ retTop = 0

ExecNext == LoadLine \/ StepA \/ StepC

ExecSpec == ExecInit /\ [][ExecNext]_vars

NoFault == mode # "fault"

---------------------------------------------------------------------------
(* Properties of the emitted text when it runs (ExecSpec).                 *)

CallDone == Halted /\ scen.kind = "call"
CmdDone  == Halted /\ scen.kind = "cmd"

\* The call block has run as far as its jump: control is at the callee's entry.
AtCalleeEntry ==
    mode = "run" /\ scen.kind = "call" /\ pc = LabelAddr(prog, "F")

\* C1. Call/return pairing: after `call F n` issued with stack pointer S, the
\* callee `function F k`, a body leaving one value on the stack, and `return`,
\* the stack pointer is S - n + 1 and the returned value is at address S - n.
Thm_C1 ==
    CallDone => /\ ram[0] = scen.S - scen.n + 1
                /\ ram[scen.S - scen.n] = retTop

Wit_C1 ==
    /\ CallDone /\ scen.n = 2 /\ scen.k = 1
    /\ retTop = 3 /\ ram[0] = scen.S - 1 /\ ram[scen.S - 2] = 3

\* C2. Frame save/restore round trip: after the call and the matching return,
\* LCL, ARG, THIS and THAT hold the values they had before the call and control
\* is at the return label the call declared, also for n = 0 and for k = 0.
Thm_C2 ==
    CallDone => /\ \A a \in 1..4 : ram[a] = ram0[a]
                /\ prog[Len(prog)][1] = "("
                /\ pc = LabelAddr(prog, prog[Len(prog)][2])

Wit_C2 ==
    /\ CallDone /\ scen.n = 0 /\ scen.k = 0 /\ scen.ptr = "sane"
    /\ \A a \in 1..4 : ram[a] = ram0[a]

\* C10 as stated. `call F n` issued with stack pointer S leaves ARG = S - n - 5.
CE_C10 == AtCalleeEntry => ram[2] = Wrap(scen.S - scen.n - 5)

\* C10 as amended. `call F n` issued with stack pointer S leaves ARG = S - n:
\* the stack pointer the block subtracts n + 5 from is the one after the five
\* words of the frame have been pushed, S + 5.
Thm_C10 == AtCalleeEntry => /\ ram[2] = scen.S - scen.n
                            /\ ram[2] = ram[0] - scen.n - 5

Wit_C10 == AtCalleeEntry /\ scen.n = 3 /\ ram[2] = scen.S - 3

\* ---- what the VM language documents for one command

IsBinary(line)  == line[1] \in {"add", "sub", "and", "or", "eq", "lt", "gt"}
IsUnary(line)   == line[1] \in {"neg", "not"}

\* The documented change of the stack pointer.
Delta(line) ==
    CASE IsBinary(line) -> -1
      [] IsUnary(line) -> 0
      [] line[1] = "push" -> 1
      [] line[1] = "pop" -> -1
      [] line[1] = "function" -> Atoi(line[3])

\* The operands a command consumes from the stack.
Consumed(line) ==
    CASE IsBinary(line) -> 2
      [] IsUnary(line) -> 1
      [] line[1] = "push" -> 0
      [] line[1] = "pop" -> 1
      [] line[1] = "function" -> 0

\* The address `pop segment index` stores to, in memory m.  A static is the
\* one variable of the block, which the assembler puts at address 16.
PopDest(line, m) ==
    CASE line[2] = "local"    -> m[1] + Atoi(line[3])
      [] line[2] = "argument" -> m[2] + Atoi(line[3])
      [] line[2] = "this"     -> m[3] + Atoi(line[3])
      [] line[2] = "that"     -> m[4] + Atoi(line[3])
      [] line[2] = "temp"     -> 5 + Atoi(line[3])
      [] line[2] = "pointer"  -> 3 + Atoi(line[3])
      [] line[2] = "static"   -> 16

\* The stack cells below the operands the command consumes.
Below(line, S) == StackBase .. (S - Consumed(line) - 1)

Untouched(cells) == \A a \in cells : ram[a] = ram0[a]

\* C3 as stated. Every accepted command (a function's count k being a count,
\* k >= 0) changes the stack pointer by exactly its documented delta (binary
\* -1, unary 0, push +1, pop -1, function k: +k) and touches no stack cell
\* below the operands it consumes.
CE_C3 ==
    LET line == scen.lines[1]
    IN  (CmdDone /\ (line[1] = "function" => Atoi(line[3]) >= 0)) =>
            /\ ram[0] = scen.S + Delta(line)
            /\ Untouched(Below(line, scen.S))

\* A pop whose destination is the stack pointer itself or a stack cell below
\* its operand.
PopAliases(line, S) ==
    line[1] = "pop" /\ PopDest(line, ram0) \in ({0} \cup Below(line, S))

\* C3 as amended. The same, for a pop only when its destination is neither
\* RAM[0] nor a stack cell below its operand, and with `function F k` changing
\* the stack pointer by k when k >= 0 and by 0 when k < 0.
Thm_C3 ==
    (CmdDone /\ ~PopAliases(scen.lines[1], scen.S)) =>
        LET line == scen.lines[1]
            delta == IF line[1] = "function" /\ Atoi(line[3]) < 0
                     THEN 0 ELSE Delta(line)
        IN  /\ ram[0] = scen.S + delta
            /\ Untouched(Below(line, scen.S))

Wit_C3 ==
    /\ CmdDone /\ scen.lines[1] = << "pop", "local", "0" >> /\ scen.ptr = "sane"
    /\ scen.S = StackBase + 3
    /\ ram[0] = scen.S - 1 /\ ram[ram0[1]] = ram0[scen.S - 1]

---------------------------------------------------------------------------
(* Properties of a run of main (Spec), over the lines it translated.       *)

Accepted(i) == trace[i].err = ""
Op(i) == trace[i].parts[1]

\* The function declarations translated before line i in the same unit.
FunctionsBefore(i) ==
    {j \in 1..(i - 1) : /\ trace[j].unit = trace[i].unit
                        /\ Op(j) = "function" /\ Accepted(j)}

InFunction(i) == FunctionsBefore(i) # {}

\* The function line i is translated in: the latest one declared before it.
EnclosingFunction(i) ==
    LET j == CHOOSE h \in FunctionsBefore(i) : \A g \in FunctionsBefore(i) : g <= h
    IN  trace[j].parts[2]

LabelLines ==
    {i \in 1..Len(trace) : Op(i) = "label" /\ Accepted(i) /\ InFunction(i)}

JumpLines ==
    {i \in 1..Len(trace) : Op(i) \in {"goto", "if-goto"} /\ Accepted(i) /\ InFunction(i)}

StaticLines ==
    {i \in 1..Len(trace) : /\ Op(i) \in {"push", "pop"} /\ Accepted(i)
                           /\ trace[i].parts[2] = "static"}

ComparisonLines == {i \in 1..Len(trace) : Op(i) \in {"eq", "lt", "gt"}}

\* The symbols a block declares and the symbols its A-instructions refer to.
Declared(asm) == {asm[h][2] : h \in {g \in 1..Len(asm) : asm[g][1] = "("}}
Referred(asm) == {asm[h][2] : h \in {g \in 1..Len(asm) : asm[g][1] = "@"}}

\* C4 as stated. `label L` translated after `function F` declares F$L; the
\* same label text in two different functions gives two different symbols.
CE_C4 ==
    /\ \A i \in LabelLines :
          Declared(trace[i].asm) = {EnclosingFunction(i) \o "$" \o trace[i].parts[2]}
    /\ \A i, j \in LabelLines :
          (/\ trace[i].parts[2] = trace[j].parts[2]
           /\ EnclosingFunction(i) # EnclosingFunction(j))
          => Declared(trace[i].asm) \cap Declared(trace[j].asm) = {}

\* C5 as stated. The symbol a `goto L` or `if-goto L` inside function F jumps
\* to is the symbol `label L` inside F declares.
CE_C5 ==
    \A i \in JumpLines : \A j \in LabelLines :
        (/\ trace[i].unit = trace[j].unit
         /\ EnclosingFunction(i) = EnclosingFunction(j)
         /\ trace[i].parts[2] = trace[j].parts[2])
        => Declared(trace[j].asm) \subseteq Referred(trace[i].asm)

\* The logical name of a unit: its file name less the extension.
LogicalName(path) == CASE path = "Foo.vm" -> "Foo" [] path = "Sys.vm" -> "Sys"

\* C6 as stated. `push static i` and `pop static i` in unit U refer to the
\* symbol U.i, so the static symbols of two units differ.
CE_C6 ==
    /\ \A i \in StaticLines :
          (LogicalName(trace[i].unit) \o "." \o trace[i].parts[3])
              \in Referred(trace[i].asm)
    /\ \A i, j \in StaticLines :
          trace[i].unit # trace[j].unit
          => (Referred(trace[i].asm) \cap Referred(trace[j].asm)) \subseteq {"SP"}

RECURSIVE BlocksOf(_, _)
\* The blocks translated for unit u among the first n lines of the trace.
BlocksOf(u, n) ==
    IF n = 0 THEN <<>>
    ELSE BlocksOf(u, n - 1) \o (IF trace[n].unit = u THEN trace[n].asm ELSE <<>>)

\* Translation of a unit has just failed and main has opened no unit since.
JustFailed ==
    /\ Len(trace) > 0 /\ trace[Len(trace)].err # ""
    /\ mainPc # "unit"

\* C7 as stated. When a unit fails at its j-th command, the blocks of its
\* commands 1..j-1 are in the output, in order, and nothing of the later ones.
CE_C7 ==
    JustFailed =>
        asmFile = fileAtOpen \o BlocksOf(trace[Len(trace)].unit, Len(trace))

\* The comparison commands translated before line i, in any unit.
Rank(i) == Cardinality({j \in ComparisonLines : j < i})

\* C8. The comparison-label counter goes up by one per eq/lt/gt and is never
\* reset: the n-th comparison of the run declares <OP>_TRUE_<n-1> and
\* <OP>_END_<n-1>, and no two comparisons of a run share a label.
Thm_C8 ==
    /\ compLabelCounter = Cardinality(ComparisonLines)
    /\ \A i \in ComparisonLines :
          Declared(trace[i].asm) =
              { ToUpper(Op(i)) \o "_TRUE_" \o ToString(Rank(i)),
                ToUpper(Op(i)) \o "_END_" \o ToString(Rank(i)) }
    /\ \A i, j \in ComparisonLines :
          i # j => Declared(trace[i].asm) \cap Declared(trace[j].asm) = {}

\* Two comparisons in different units, the first unit abandoned on an error.
Wit_C8 ==
    \E i, j, h \in 1..Len(trace) :
        /\ i < j /\ j < h
        /\ i \in ComparisonLines /\ h \in ComparisonLines
        /\ trace[j].unit = trace[i].unit /\ ~Accepted(j)
        /\ trace[h].unit # trace[i].unit
        /\ Op(i) = Op(h)
        /\ Declared(trace[i].asm) # Declared(trace[h].asm)

---------------------------------------------------------------------------
(* Properties of the parser on one line (ParseSpec).                       *)

\* The operand count the language requires of each command.
Required ==
    [op \in {"push", "pop", "function", "call"} |-> 2]
    @@ [op \in {"goto", "if-goto", "label"} |-> 1]
    @@ [op \in {"return", "add", "sub", "neg", "and", "or", "not"} |-> 0]

\* C9 as stated. A line whose operand count differs from the required one
\* yields an error and no instruction text.
CE_C9 ==
    (/\ scen.kind = "parse" /\ todo = <<>>
     /\ lastRes.parts[1] \in DOMAIN Required
     /\ Len(lastRes.parts) - 1 # Required[lastRes.parts[1]])
    => (lastRes.err # "" /\ lastRes.asm = <<>> /\ prog = <<>>)

=============================================================================
